---- MODULE Spec2Model ----
(***************************************************************************)
(* Model of decodeRawData (src/main.go), the escape decoder of             *)
(* cURLDataExtractor.  Bytes are the integers 0..255, a string or a byte   *)
(* slice is a sequence of bytes.  The cursor i keeps Go's 0-based value.   *)
(* One action models one iteration of the decoding loop, one per branch    *)
(* of the switch on the escape code, up to the return it may take.         *)
(* decodeRawData has two callers: main, the pipeline from the input file   *)
(* to the output file, and a test that calls the functions on arguments    *)
(* of its choice.  Spec is one call of decodeRawData alone, MainSpec a run *)
(* of main, TestSpec a run of the test.                                    *)
(***************************************************************************)
EXTENDS Integers, Sequences, FiniteSets, TLC

VARIABLES
    inputBytes,   \* []byte(s), the argument of decodeRawData
    i,            \* current index in inputBytes (0-based, as in the code)
    result,       \* the bytes.Buffer being filled
    pc,           \* "loop": in the for loop; "done"/"error": returned
    ret,          \* the returned []byte (<<>> stands for nil and for empty)
    err,          \* the returned error, by the constant part of its message
    errArg,       \* the values formatted into the message
    \* main
    mainPc,              \* the statement main is at; "none": main is not run
    inputFile,           \* the content of the input file, NoFile: unreadable
    curlCommand,         \* the text read from the input file
    dataRaw,             \* the extracted, then trimmed, payload
    decodedData,         \* what decodeRawData returned to main
    finalProcessedData,  \* the bytes handed to the JSON step
    prettyJSON,          \* the indented JSON text
    outputFile,          \* the content of the output file, NoFile: absent
    exitCode,            \* the exit status of the process, -1 while it runs
    \* the test
    testPc,       \* the call the test is at; "none": the test is not run
    argA,         \* its first argument
    argB,         \* its second argument
    outA,         \* what decodeRawData(argA) returned
    outB,         \* what decodeRawData(argB) returned
    rendered      \* what reprBytes(argA) returned

decodeVars == <<inputBytes, i, result, pc, ret, err, errArg>>
mainVars == <<mainPc, inputFile, curlCommand, dataRaw, decodedData,
              finalProcessedData, prettyJSON, outputFile, exitCode>>
testVars == <<testPc, argA, argB, outA, outB, rendered>>
vars == <<decodeVars, mainVars, testVars>>

\* no file: the input file cannot be read, the output file does not exist
NoFile == <<-1>>

-----------------------------------------------------------------------------
(* Byte values of the characters the code names.                           *)

Backslash == 92
MaxByte == 255

Byte == 0..MaxByte

\* s[lo:hi] of Go, on a 1-based TLA+ sequence
Slice(s, lo, hi) == SubSeq(s, lo + 1, hi)

\* inputBytes[k] of Go
At(k) == inputBytes[k + 1]

\* byte(x): conversion of an integer to uint8
ToByte(x) == x % 256

-----------------------------------------------------------------------------
(* encoding/hex.DecodeString on the two bytes of a \x escape.              *)

\* fromHexChar without the upper-case digits A-F
FromHexChar_LowerOnly(c) ==
    IF c >= 48 /\ c <= 57 THEN c - 48
    ELSE IF c >= 97 /\ c <= 102 THEN c - 97 + 10
    ELSE -1

\* hex.fromHexChar: the value of a hex digit, -1 when the byte is none
FromHexChar(c) ==
    IF c >= 48 /\ c <= 57 THEN c - 48
    ELSE IF c >= 97 /\ c <= 102 THEN c - 97 + 10
    ELSE IF c >= 65 /\ c <= 70 THEN c - 65 + 10
    ELSE -1

\* hex.DecodeString(string(inputBytes[i:i+2])): the decoded byte, or an error
HexDecodeString(s) ==
    IF Len(s) % 2 = 1 THEN [val |-> <<>>, err |-> "odd length"]
    ELSE IF \E k \in 1..Len(s) : FromHexChar(s[k]) = -1
         THEN [val |-> <<>>, err |-> "invalid byte"]
    ELSE [val |-> [k \in 1..(Len(s) \div 2) |->
                      FromHexChar(s[2 * k - 1]) * 16 + FromHexChar(s[2 * k])],
          err |-> "nil"]

-----------------------------------------------------------------------------
(* strconv.ParseInt(s, base, bitSize) for 2 <= base <= 36 and              *)
(* bitSize <= 32, as decodeRawData calls it.  The unsigned magnitude can   *)
(* reach 2^32-1, so it is kept as two 16-bit halves, hi * 2^16 + lo.       *)

\* the digit value of byte c in ParseUint, -1 for a byte that is no digit
\* ('_' is a digit separator only when base = 0, which the code never uses)
DigitValue(c) ==
    IF c >= 48 /\ c <= 57 THEN c - 48
    ELSE IF c >= 97 /\ c <= 122 THEN c - 97 + 10
    ELSE IF c >= 65 /\ c <= 90 THEN c - 65 + 10
    ELSE -1

\* 2^k for the bit sizes used
RECURSIVE Pow2(_)
Pow2(k) == IF k = 0 THEN 1 ELSE 2 * Pow2(k - 1)

\* the weight of the high half, 2^16
Half == Pow2(16)

\* maxVal = 1<<bitSize - 1 as halves, bitSize in 1..32
WideMaxVal(bitSize) ==
    IF bitSize > 16 THEN [hi |-> Pow2(bitSize - 16) - 1, lo |-> Half - 1]
    ELSE [hi |-> 0, lo |-> Pow2(bitSize) - 1]

WideLess(a, b) == a.hi < b.hi \/ (a.hi = b.hi /\ a.lo < b.lo)

\* n*base + d as halves
WideMulAdd(n, base, d) ==
    LET low == n.lo * base + d
    IN  [hi |-> n.hi * base + low \div Half, lo |-> low % Half]

\* the digit loop of strconv.ParseUint from position k with accumulator n
RECURSIVE ParseUintLoop(_, _, _, _, _)
ParseUintLoop(s, k, n, base, bitSize) ==
    IF k > Len(s) THEN [un |-> n, err |-> "nil"]
    ELSE LET d == DigitValue(s[k])
             n1 == WideMulAdd(n, base, d)
         IN  IF d = -1 \/ d >= base
             THEN [un |-> [hi |-> 0, lo |-> 0], err |-> "syntax"]
             ELSE IF WideLess(WideMaxVal(bitSize), n1)
             THEN [un |-> WideMaxVal(bitSize), err |-> "range"]
             ELSE ParseUintLoop(s, k + 1, n1, base, bitSize)

ParseUint(s, base, bitSize) ==
    IF Len(s) = 0 THEN [un |-> [hi |-> 0, lo |-> 0], err |-> "syntax"]
    ELSE ParseUintLoop(s, 1, [hi |-> 0, lo |-> 0], base, bitSize)

\* strconv.ParseInt: an optional sign, then ParseUint, then the signed range
\* check against cutoff = 1<<(bitSize-1)
ParseInt(s, base, bitSize) ==
    IF Len(s) = 0 THEN [val |-> 0, err |-> "syntax"]
    ELSE LET neg == s[1] = 45
             body == IF s[1] = 43 \/ s[1] = 45 THEN Tail(s) ELSE s
             u == ParseUint(body, base, bitSize)
             cutoff == IF bitSize > 16
                       THEN [hi |-> Pow2(bitSize - 17), lo |-> 0]
                       ELSE [hi |-> 0, lo |-> Pow2(bitSize - 1)]
             cutoffMinus1 == (Pow2(bitSize - 2) - 1) * 2 + 1
         IN  IF u.err = "syntax" THEN [val |-> 0, err |-> "syntax"]
             ELSE IF ~neg /\ ~WideLess(u.un, cutoff)
             THEN [val |-> cutoffMinus1, err |-> "range"]
             ELSE IF neg /\ WideLess(cutoff, u.un)
             THEN [val |-> -cutoffMinus1 - 1, err |-> "range"]
             ELSE IF u.un = cutoff
             THEN [val |-> -cutoffMinus1 - 1, err |-> "nil"]
             ELSE [val |-> IF neg THEN -(u.un.hi * Half + u.un.lo)
                           ELSE u.un.hi * Half + u.un.lo,
                   err |-> "nil"]

-----------------------------------------------------------------------------
(* unicode/utf8.DecodeRune(p): the rune and its size; an invalid encoding  *)
(* gives (RuneError, 1).                                                   *)

RuneError == 65533

\* utf8.first[p0]: "as" for ASCII, "xx" for an invalid first byte, else
\* the size and the accepted range of the second byte
Utf8First(p0) ==
    IF p0 < 128 THEN [kind |-> "as", size |-> 1, lo |-> 0, hi |-> 0]
    ELSE IF p0 < 194 THEN [kind |-> "xx", size |-> 1, lo |-> 0, hi |-> 0]
    ELSE IF p0 <= 223 THEN [kind |-> "s1", size |-> 2, lo |-> 128, hi |-> 191]
    ELSE IF p0 = 224 THEN [kind |-> "s2", size |-> 3, lo |-> 160, hi |-> 191]
    ELSE IF p0 <= 236 THEN [kind |-> "s3", size |-> 3, lo |-> 128, hi |-> 191]
    ELSE IF p0 = 237 THEN [kind |-> "s4", size |-> 3, lo |-> 128, hi |-> 159]
    ELSE IF p0 <= 239 THEN [kind |-> "s3", size |-> 3, lo |-> 128, hi |-> 191]
    ELSE IF p0 = 240 THEN [kind |-> "s5", size |-> 4, lo |-> 144, hi |-> 191]
    ELSE IF p0 <= 243 THEN [kind |-> "s6", size |-> 4, lo |-> 128, hi |-> 191]
    ELSE IF p0 = 244 THEN [kind |-> "s7", size |-> 4, lo |-> 128, hi |-> 143]
    ELSE [kind |-> "xx", size |-> 1, lo |-> 0, hi |-> 0]

\* a continuation byte, locb <= b <= hicb
IsCont(b) == b >= 128 /\ b <= 191

DecodeRune(p) ==
    IF Len(p) < 1 THEN [r |-> RuneError, size |-> 0]
    ELSE LET x == Utf8First(p[1])
             bad == [r |-> RuneError, size |-> 1]
         IN  IF x.kind = "as" THEN [r |-> p[1], size |-> 1]
             ELSE IF x.kind = "xx" THEN bad
             ELSE IF Len(p) < x.size THEN bad
             ELSE IF p[2] < x.lo \/ x.hi < p[2] THEN bad
             ELSE IF x.size <= 2
             THEN [r |-> (p[1] % 32) * 64 + (p[2] % 64), size |-> 2]
             ELSE IF ~IsCont(p[3]) THEN bad
             ELSE IF x.size <= 3
             THEN [r |-> (p[1] % 16) * 4096 + (p[2] % 64) * 64 + (p[3] % 64),
                   size |-> 3]
             ELSE IF ~IsCont(p[4]) THEN bad
             ELSE [r |-> (p[1] % 8) * 262144 + (p[2] % 64) * 4096
                         + (p[3] % 64) * 64 + (p[4] % 64),
                   size |-> 4]

-----------------------------------------------------------------------------
(* The inputs decodeRawData is run on.  Any byte string is an input; the   *)
(* families below are the strings over small alphabets around each branch, *)
(* every escape code and every single byte, and the inputs of the          *)
(* repository's own test table.                                            *)

MaxMixLen == 3     \* length of the strings over MixAlphabet
MaxOctLen == 4     \* bytes after the backslash in the octal family
MaxHexLen == 3     \* bytes after \x in the hex family
MaxU4Len == 5      \* bytes after \u in the 4-digit family
MaxUtf8Len == 3    \* length of the strings over Utf8Alphabet
MaxRTLen == 2      \* length of the byte strings escaped as \xHH

SeqsOfLen(S, n) == [1..n -> S]
SeqsUpTo(S, n) == UNION {SeqsOfLen(S, k) : k \in 0..n}

\* A \ n x 0 8
MixAlphabet == {65, 92, 110, 120, 48, 56}
\* 0 3 4 7 9 a
OctAlphabet == {48, 51, 52, 55, 57, 97}
\* the hex digits at the ends of their ranges and the bytes just outside
\* / 0 9 : @ A F G ` a f g
HexAlphabet == {47, 48, 57, 58, 64, 65, 70, 71, 96, 97, 102, 103}
\* 0 F a + - G
U4Alphabet == {48, 70, 97, 43, 45, 71}
\* A, continuation bytes, lead bytes of 2- and 3-byte characters, 0xFF
Utf8Alphabet == {65, 128, 164, 191, 194, 195, 196, 226, 130, 172, 255}
\* NUL LF " ' \ 0 A x ~ DEL 0xFF
RTAlphabet == {0, 10, 34, 39, 92, 48, 65, 120, 126, 127, 255}

\* the hex digit of a nibble, as %02x (lower) or %02X (upper) writes it
HexDigitChar(n, upper) ==
    IF n < 10 THEN 48 + n ELSE (IF upper THEN 65 ELSE 97) + (n - 10)

\* one byte written the \xHH way: itself when printable ASCII other than
\* a quote or the backslash, else \x and two hex digits
EscapeByteXHH(b, upper) ==
    IF b >= 32 /\ b <= 126 /\ b # 39 /\ b # 34 /\ b # 92 THEN <<b>>
    ELSE <<92, 120, HexDigitChar(b \div 16, upper), HexDigitChar(b % 16, upper)>>

RECURSIVE EscapeXHH(_, _)
EscapeXHH(bs, upper) ==
    IF bs = <<>> THEN <<>>
    ELSE EscapeByteXHH(Head(bs), upper) \o EscapeXHH(Tail(bs), upper)

\* the byte strings whose \xHH form is an input
RoundTripBytes == {<<b>> : b \in Byte} \cup SeqsUpTo(RTAlphabet, MaxRTLen)

\* the inputs of TestDecodeRawData
TestInputs == {
        <<>>,
        <<104, 101, 108, 108, 111>>,
        <<92, 110>>,
        <<92, 114>>,
        <<92, 116>>,
        <<92, 92>>,
        <<92, 39>>,
        <<92, 34>>,
        <<92, 102>>,
        <<92, 98>>,
        <<92, 118>>,
        <<92, 97>>,
        <<92, 120, 52, 56, 92, 120, 54, 53>>,
        <<92, 120, 52>>,
        <<92, 120, 52, 71>>,
        <<92, 117, 48, 48, 52, 49>>,
        <<92, 117, 48, 48, 69, 52>>,
        <<92, 117, 48, 49, 48, 48>>,
        <<92, 117, 48, 48, 52>>,
        <<92, 117, 48, 48, 52, 71>>,
        <<92, 85, 48, 48, 48, 48, 48, 48, 54, 49>>,
        <<92, 85, 48, 48, 48, 48, 48, 49, 48, 48>>,
        <<92, 85, 48, 48, 48, 48, 48, 48, 54>>,
        <<92, 85, 48, 48, 48, 48, 48, 48, 54, 71>>,
        <<92, 48>>,
        <<92, 55, 55>>,
        <<92, 49, 48, 49>>,
        <<92, 51, 55, 55>>,
        <<92, 52, 48, 48>>,
        <<92, 48, 56>>,
        <<92, 55, 57>>,
        <<92, 48, 97>>,
        <<92, 122>>,
        <<97, 98, 99, 92>>,
        <<72, 226, 130, 172, 108, 108, 111>>,
        <<72, 195, 164, 108, 108, 111>>,
        <<65, 255, 66>>,
        <<65, 92, 110, 66, 92, 120, 52, 51, 68, 92, 49, 48, 53, 70>>
    }

Mixed == SeqsUpTo(MixAlphabet, MaxMixLen)
EscapePairs == {<<92, c>> : c \in Byte}
SingleBytes == {<<c>> : c \in Byte}
OctalInputs == {<<92>> \o d : d \in SeqsUpTo(OctAlphabet, MaxOctLen)}
HexInputs == {<<92, 120>> \o d : d \in SeqsUpTo(HexAlphabet, MaxHexLen)}
U4Inputs == {<<92, 117>> \o d : d \in SeqsUpTo(U4Alphabet, MaxU4Len)}

\* \U and 8 bytes: a first byte among 0 7 8 F + -, then 0/F, then the two
\* low digits; and 00000000 with one byte replaced by G or +
U8Bodies ==
    {<<a>> \o m \o <<c, d>> :
        a \in {48, 55, 56, 70, 43, 45},
        m \in SeqsOfLen({48, 70}, 5),
        c \in {48, 49, 70, 71},
        d \in {48, 70, 71}}
    \cup {[k \in 1..8 |-> IF k = q THEN x ELSE 48] : q \in 1..8, x \in {71, 43}}
U8Inputs ==
    {<<92, 85>> \o d : d \in U8Bodies}
    \cup {<<92, 85>> \o d : d \in UNION {SeqsOfLen({48, 71}, k) : k \in 0..7}}

\* every lead byte with a second byte around the continuation range, and
\* encodings of 3 and 4 bytes: U+FFFD, a surrogate, an overlong form,
\* U+1F600, a value above U+10FFFF, U+20AC cut short
Utf8Inputs ==
    SeqsUpTo(Utf8Alphabet, MaxUtf8Len)
    \cup {<<a, b>> : a \in 192..255, b \in {127, 128, 159, 160, 191, 192}}
    \cup {<<239, 191, 189>>, <<237, 160, 128>>, <<224, 128, 128>>,
          <<224, 160, 128>>, <<240, 159, 152, 128>>, <<244, 144, 128, 128>>,
          <<240, 159, 152>>, <<240, 159, 152, 65>>, <<226, 130>>,
          <<239, 191, 189, 65>>, <<240, 144, 128, 128, 65>>}

RoundTripInputs ==
    {EscapeXHH(b, u) : b \in RoundTripBytes, u \in BOOLEAN}

BaseInputs ==
    TestInputs \cup Mixed \cup EscapePairs \cup SingleBytes \cup OctalInputs
    \cup HexInputs \cup U4Inputs \cup U8Inputs \cup Utf8Inputs
    \cup RoundTripInputs

\* each of them alone and after a literal A that is decoded first
Inputs == BaseInputs \cup {<<65>> \o b : b \in BaseInputs}

\* main is not run
MainNone ==
    /\ mainPc = "none"
    /\ inputFile = NoFile
    /\ curlCommand = <<>>
    /\ dataRaw = <<>>
    /\ decodedData = <<>>
    /\ finalProcessedData = <<>>
    /\ prettyJSON = <<>>
    /\ outputFile = NoFile
    /\ exitCode = -1

\* the test is not run
TestNone ==
    /\ testPc = "none"
    /\ argA = <<>>
    /\ argB = <<>>
    /\ outA = <<>>
    /\ outB = <<>>
    /\ rendered = <<>>

\* decodeRawData is entered with s
Entry(s) ==
    /\ inputBytes = s
    /\ i = 0
    /\ result = <<>>
    /\ pc = "loop"
    /\ ret = <<>>
    /\ err = "nil"
    /\ errArg = <<>>

Init ==
    /\ \E s \in Inputs : Entry(s)
    /\ MainNone
    /\ TestNone

-----------------------------------------------------------------------------
(* decodeRawData: the returns.                                             *)

\* an error return that hands out the bytes decoded so far
ReturnError_KeepsBytes(msg, args) ==
    /\ pc' = "error"
    /\ ret' = result
    /\ err' = msg
    /\ errArg' = args
    /\ UNCHANGED <<inputBytes, result, mainVars, testVars>>

\* return nil, fmt.Errorf(msg, args...)
ReturnError(msg, args) ==
    /\ pc' = "error"
    /\ ret' = <<>>
    /\ err' = msg
    /\ errArg' = args
    /\ UNCHANGED <<inputBytes, result, mainVars, testVars>>

\* an iteration that ends without a return
Continue == UNCHANGED <<inputBytes, pc, ret, err, errArg, mainVars, testVars>>

\* the loop is at a backslash that a byte follows: escapeCode is defined
AtEscape ==
    /\ pc = "loop"
    /\ i < Len(inputBytes)
    /\ At(i) = Backslash
    /\ i + 1 < Len(inputBytes)

escapeCode == At(i + 1)

\* the table with \v left as the letter v
SimpleEscapes_NoVerticalTab ==
    (110 :> 10) @@ (114 :> 13) @@ (116 :> 9) @@ (98 :> 8) @@ (102 :> 12)
    @@ (118 :> 118) @@ (97 :> 7) @@ (92 :> 92) @@ (39 :> 39) @@ (34 :> 34)

\* the single-character cases of the switch: escape code -> byte written
SimpleEscapes ==
    (110 :> 10) @@ (114 :> 13) @@ (116 :> 9) @@ (98 :> 8) @@ (102 :> 12)
    @@ (118 :> 11) @@ (97 :> 7) @@ (92 :> 92) @@ (39 :> 39) @@ (34 :> 34)

IsOctalDigit(c) == c >= 48 /\ c <= 55

\* a look-ahead that rejects only the digits that are not octal, 8 and 9
IsDecimalDigit_Only89(c) == c >= 56 /\ c <= 57

\* a hex digit counts as a digit
IsDecimalDigit_OrHexLetter(c) ==
    (c >= 48 /\ c <= 57) \/ (c >= 65 /\ c <= 70)

\* the look-ahead test after the octal run: a decimal digit follows
IsDecimalDigit(c) == c >= 48 /\ c <= 57

\* the codes with a case of their own; every other code takes default
IsCasedCode(c) ==
    \/ c \in DOMAIN SimpleEscapes
    \/ c = 120 \/ c = 117 \/ c = 85
    \/ IsOctalDigit(c)

-----------------------------------------------------------------------------
(* decodeRawData: one action per branch of the loop body.                  *)

\* for i < len(inputBytes) fails: return result.Bytes(), nil
Return ==
    /\ pc = "loop"
    /\ i >= Len(inputBytes)
    /\ pc' = "done"
    /\ ret' = result
    /\ UNCHANGED <<inputBytes, i, result, err, errArg, mainVars, testVars>>

\* a final backslash taken as a literal backslash
TrailingBackslash_KeptAsLiteral ==
    /\ pc = "loop"
    /\ i < Len(inputBytes)
    /\ At(i) = Backslash
    /\ i + 1 >= Len(inputBytes)
    /\ result' = Append(result, Backslash)
    /\ i' = i + 1
    /\ Continue

\* '\' is the last byte
TrailingBackslash ==
    /\ pc = "loop"
    /\ i < Len(inputBytes)
    /\ At(i) = Backslash
    /\ i + 1 >= Len(inputBytes)
    /\ i' = i + 1
    /\ ReturnError("trailing backslash", <<>>)

\* the single-character cases with the cursor advanced once too often
EscapeSimple_DoubleAdvance ==
    /\ AtEscape
    /\ escapeCode \in DOMAIN SimpleEscapes
    /\ result' = Append(result, SimpleEscapes[escapeCode])
    /\ i' = i + 3
    /\ Continue

\* case 'n', 'r', 't', 'b', 'f', 'v', 'a', '\\', '\'', '"'
EscapeSimple ==
    /\ AtEscape
    /\ escapeCode \in DOMAIN SimpleEscapes
    /\ result' = Append(result, SimpleEscapes[escapeCode])
    /\ i' = i + 2
    /\ Continue

\* a bound test that wants a byte after the two digits
HexIncomplete_OffByOne(j) == j + 2 >= Len(inputBytes)

\* the bound test of case 'x': fewer than two bytes from j on
HexIncomplete(j) == j + 1 >= Len(inputBytes)

\* case 'x'
EscapeHex ==
    /\ AtEscape
    /\ escapeCode = 120
    /\ LET j == i + 2
           d == HexDecodeString(Slice(inputBytes, j, j + 2))
       IN  IF HexIncomplete(j)
           THEN /\ i' = j
                /\ ReturnError("incomplete hex escape",
                               Slice(inputBytes, j, Len(inputBytes)))
           ELSE IF d.err # "nil"
           THEN /\ i' = j
                /\ ReturnError("invalid hex escape", Slice(inputBytes, j, j + 2))
           ELSE /\ result' = Append(result, d.val[1])
                /\ i' = j + 2
                /\ Continue

\* the range test of cases 'u' and 'U': code < 0 || code > 0xFF
OutsideLatin1(code) == code < 0 \/ code > MaxByte

\* the body shared by case 'u' (n = 4) and case 'U' (n = 8)
UnicodeEscape(n) ==
    LET j == i + 2
        p == ParseInt(Slice(inputBytes, j, j + n), 16, 32)
    IN  IF j + (n - 1) >= Len(inputBytes)
        THEN /\ i' = j
             /\ ReturnError("incomplete unicode escape",
                            Slice(inputBytes, j, Len(inputBytes)))
        ELSE IF p.err # "nil"
        THEN /\ i' = j
             /\ ReturnError("invalid unicode escape", Slice(inputBytes, j, j + n))
        ELSE IF OutsideLatin1(p.val)
        THEN /\ i' = j
             /\ ReturnError("unicode escape outside Latin-1 range", <<p.val>>)
        ELSE /\ result' = Append(result, ToByte(p.val))
             /\ i' = j + n
             /\ Continue

\* case 'u'
EscapeU4 ==
    /\ AtEscape
    /\ escapeCode = 117
    /\ UnicodeEscape(4)

\* case 'U'
EscapeU8 ==
    /\ AtEscape
    /\ escapeCode = 85
    /\ UnicodeEscape(8)

\* the greedy loop of the octal case: up to 3 octal digits from index k
RECURSIVE OctalLoop(_, _)
OctalLoop(octalDigitsBytes, k) ==
    IF /\ Len(octalDigitsBytes) < 3
       /\ k < Len(inputBytes)
       /\ IsOctalDigit(At(k))
    THEN OctalLoop(Append(octalDigitsBytes, At(k)), k + 1)
    ELSE [digits |-> octalDigitsBytes, i |-> k]

\* a limit of 9 bits instead of 8
OctalTooLarge_NineBits(val) == val > 511

\* the test of the parsed octal value: val > 0xFF
OctalTooLarge(val) == val > MaxByte

\* case '0' .. '7'
EscapeOctal ==
    /\ AtEscape
    /\ IsOctalDigit(escapeCode)
    /\ LET startOctalParseIndex == i + 1
           run == OctalLoop(<<>>, startOctalParseIndex)
           p == ParseInt(run.digits, 8, 16)
       IN  /\ i' = run.i
           /\ IF run.i < Len(inputBytes) /\ IsDecimalDigit(At(run.i))
              THEN ReturnError("invalid octal escape",
                               Slice(inputBytes, startOctalParseIndex, run.i + 1))
              ELSE IF Len(run.digits) = 0
              THEN ReturnError("internal error: no octal digits", <<>>)
              ELSE IF p.err # "nil"
              THEN ReturnError("failed to parse octal string", run.digits)
              ELSE IF OctalTooLarge(p.val)
              THEN ReturnError("octal escape too large for a byte", <<p.val>>)
              ELSE /\ result' = Append(result, ToByte(p.val))
                   /\ Continue

\* a default that drops the backslash
DefaultBytes_DropsBackslash(c) == <<c>>

\* what default writes: the backslash, then the escape code
DefaultBytes(c) == <<Backslash, c>>

\* default: an unrecognized escape
EscapeDefault ==
    /\ AtEscape
    /\ ~IsCasedCode(escapeCode)
    /\ result' = result \o DefaultBytes(escapeCode)
    /\ i' = i + 2
    /\ Continue

\* a literal branch that takes ASCII only
RuneInLatin1_AsciiOnly(r) == r <= 127

\* the test of the literal branch: r <= 0xFF
RuneInLatin1(r) == r <= MaxByte

\* else: a literal character
Literal ==
    /\ pc = "loop"
    /\ i < Len(inputBytes)
    /\ At(i) # Backslash
    /\ LET d == DecodeRune(Slice(inputBytes, i, Len(inputBytes)))
       IN  IF d.r = RuneError /\ d.size = 1
           THEN /\ i' = i
                /\ ReturnError("invalid UTF-8 sequence", <<i>>)
           ELSE IF RuneInLatin1(d.r)
           THEN /\ result' = Append(result, ToByte(d.r))
                /\ i' = i + d.size
                /\ Continue
           ELSE /\ i' = i
                /\ ReturnError("literal character outside Latin-1 range", <<d.r>>)

Next ==
    \/ Return
    \/ TrailingBackslash
    \/ EscapeSimple
    \/ EscapeHex
    \/ EscapeU4
    \/ EscapeU8
    \/ EscapeOctal
    \/ EscapeDefault
    \/ Literal

Spec == Init /\ [][Next]_vars

-----------------------------------------------------------------------------
(* extractDataRaw: the first submatch of the leftmost match of its regular *)
(* expression in the cURL command.  The expression is the marker, a group  *)
(* of any number of dots under the flag s, and a single quote.             *)

\* the literal the expression begins with: --data-raw $'
Marker == <<45, 45, 100, 97, 116, 97, 45, 114, 97, 119, 32, 36, 39>>

\* the single quote the expression ends with
Quote == 39

\* the literal p matches s at offset k
LiteralAt(s, p, k) ==
    /\ k + Len(p) <= Len(s)
    /\ Slice(s, k, k + Len(p)) = p

\* with the flag s the dot matches every character, the newline included;
\* a byte that is not valid UTF-8 is matched as one character
DotMatches(c) == TRUE

\* the offsets at which a match that starts at k can end its group: the
\* marker is at k, the dots take the group, a quote follows it
GroupEnds(s, k) ==
    IF ~LiteralAt(s, Marker, k) THEN {}
    ELSE {e \in (k + Len(Marker))..(Len(s) - 1) :
            /\ \A j \in (k + Len(Marker))..(e - 1) : DotMatches(s[j + 1])
            /\ s[e + 1] = Quote}

\* the star is lazy: the shortest group is tried first
Preferred_Lazy(ends) == CHOOSE e \in ends : \A f \in ends : e <= f

\* the star is greedy: the longest group is tried first
Preferred(ends) == CHOOSE e \in ends : \A f \in ends : f <= e

\* the match and its submatch, the empty sequence when nothing matches: the
\* leftmost start that matches, and there the preferred group
FindStringSubmatch(s) ==
    LET starts == {k \in 0..Len(s) : GroupEnds(s, k) # {}}
    IN  IF starts = {} THEN <<>>
        ELSE LET k == CHOOSE a \in starts : \A b \in starts : a <= b
                 e == Preferred(GroupEnds(s, k))
             IN  <<Slice(s, k, e + 1), Slice(s, k + Len(Marker), e)>>

extractDataRaw(command) ==
    LET matches == FindStringSubmatch(command)
    IN  IF Len(matches) < 2
        THEN [value |-> <<>>, err |-> "failed to extract data-raw part"]
        ELSE [value |-> matches[2], err |-> "nil"]

-----------------------------------------------------------------------------
(* strings.TrimSpace: the leading and trailing white space, as Unicode     *)
(* defines it, is cut off.                                                 *)

\* unicode.IsSpace
IsSpace(r) ==
    \/ r \in {9, 10, 11, 12, 13, 32, 133, 160, 5760, 8232, 8233, 8239, 8287,
              12288}
    \/ (8192 <= r /\ r <= 8202)

\* utf8.DecodeLastRune: the start of the last character is looked for
\* among the three bytes before the last one, and the character must end
\* where the text ends
DecodeLastRune(p) ==
    LET end == Len(p)
        bad == [r |-> RuneError, size |-> 1]
    IN  IF end = 0 THEN [r |-> RuneError, size |-> 0]
        ELSE IF p[end] < 128 THEN [r |-> p[end], size |-> 1]
        ELSE LET lim == IF end - 4 < 0 THEN 0 ELSE end - 4
                 found == {k \in lim..(end - 2) : ~IsCont(p[k + 1])}
                 stop == IF found = {} THEN lim - 1
                         ELSE CHOOSE k \in found : \A j \in found : j <= k
                 start == IF stop < 0 THEN 0 ELSE stop
                 d == DecodeRune(Slice(p, start, end))
             IN  IF start + d.size # end THEN bad ELSE d

RECURSIVE TrimLeft(_)
TrimLeft(s) ==
    IF s = <<>> THEN s
    ELSE LET d == DecodeRune(s)
         IN  IF IsSpace(d.r) THEN TrimLeft(Slice(s, d.size, Len(s))) ELSE s

RECURSIVE TrimRight(_)
TrimRight(s) ==
    IF s = <<>> THEN s
    ELSE LET d == DecodeLastRune(s)
         IN  IF IsSpace(d.r) THEN TrimRight(Slice(s, 0, Len(s) - d.size))
             ELSE s

TrimSpace(s) == TrimRight(TrimLeft(s))

-----------------------------------------------------------------------------
(* decompressGzipData.  The header is checked as gzip.NewReader checks it; *)
(* the members the model knows are the streams of GzipStreams, which were  *)
(* written by a gzip writer, and every other stream of the model is cut    *)
(* short or damaged.                                                       *)

\* the length of the fixed part of a gzip header
GzipHeaderLen == 10

\* the compression method deflate
GzipDeflate == 8

\* ID1 and ID2
GzipMagic == <<31, 139>>

\* a header without optional fields, as the gzip writer writes it
GzipHeader == GzipMagic \o <<GzipDeflate, 0, 0, 0, 0, 0, 0, 255>>

\* the streams of {"a":1}, of hello world and of the empty text
GzipStreams ==
    { [stream |-> GzipHeader \o <<171, 86, 74, 84, 178, 50, 172, 5, 0,
                                  175, 172, 27, 86, 7, 0, 0, 0>>,
       content |-> <<123, 34, 97, 34, 58, 49, 125>>],
      [stream |-> GzipHeader \o <<203, 72, 205, 201, 201, 87, 40, 207, 47,
                                  202, 73, 1, 0, 133, 17, 74, 13, 11, 0, 0, 0>>,
       content |-> <<104, 101, 108, 108, 111, 32, 119, 111, 114, 108, 100>>],
      [stream |-> GzipHeader \o <<3, 0, 0, 0, 0, 0, 0, 0, 0, 0>>,
       content |-> <<>>] }

decompressGzipData(data) ==
    IF \/ Len(data) < GzipHeaderLen
       \/ Slice(data, 0, 2) # GzipMagic
       \/ data[3] # GzipDeflate
    THEN [value |-> <<>>, err |-> "failed to create gzip reader"]
    ELSE IF \E g \in GzipStreams : g.stream = data
    THEN [value |-> (CHOOSE g \in GzipStreams : g.stream = data).content,
          err |-> "nil"]
    ELSE [value |-> <<>>, err |-> "failed to decompress data"]

-----------------------------------------------------------------------------
(* json.Unmarshal into an empty interface and json.MarshalIndent.  The     *)
(* scanner follows the JSON grammar; a text is "beyond" the scanner when   *)
(* it has a string with an escape or a byte from 127 on, or a number with  *)
(* a fraction, an exponent or more than MaxDigits digits.                  *)

MaxDigits == 15

JsonSpace == {32, 9, 13, 10}

\* the scanner's answers
JsonOk(v, next) == [st |-> "ok", v |-> v, next |-> next]
JsonBad == [st |-> "bad", v |-> <<>>, next |-> 0]
JsonBeyond == [st |-> "beyond", v |-> <<>>, next |-> 0]

\* the byte at offset p, -1 past the end
ByteAt(data, p) == IF p < Len(data) THEN data[p + 1] ELSE -1

RECURSIVE SkipSpace(_, _)
SkipSpace(data, p) ==
    IF ByteAt(data, p) \in JsonSpace THEN SkipSpace(data, p + 1) ELSE p

\* true, false, null
ScanLiteral(data, p, word) ==
    IF LiteralAt(data, word, p)
    THEN JsonOk([t |-> "lit", text |-> word], p + Len(word))
    ELSE JsonBad

RECURSIVE SkipDigits(_, _)
SkipDigits(data, p) ==
    IF ByteAt(data, p) \in 48..57 THEN SkipDigits(data, p + 1) ELSE p

ScanNumber(data, p) ==
    LET first == IF ByteAt(data, p) = 45 THEN p + 1 ELSE p
        last == IF ByteAt(data, first) = 48 THEN first + 1
                ELSE SkipDigits(data, first)
    IN  IF last = first THEN JsonBad
        ELSE IF ByteAt(data, last) \in {46, 101, 69} THEN JsonBeyond
        ELSE IF last - first > MaxDigits THEN JsonBeyond
        ELSE JsonOk([t |-> "num", text |-> Slice(data, p, last)], last)

\* the offset of the closing quote of the string whose body starts at p,
\* -1 when the string is not closed, -2 when it is beyond the scanner
RECURSIVE StringEnd(_, _)
StringEnd(data, p) ==
    LET c == ByteAt(data, p)
    IN  IF c = 34 THEN p
        ELSE IF c < 32 THEN -1
        ELSE IF c = 92 \/ c >= 127 THEN -2
        ELSE StringEnd(data, p + 1)

ScanString(data, p) ==
    LET e == StringEnd(data, p + 1)
    IN  IF e = -1 THEN JsonBad
        ELSE IF e = -2 THEN JsonBeyond
        ELSE JsonOk([t |-> "str", text |-> Slice(data, p + 1, e)], e + 1)

\* a map keeps the last value of a key
PutMember(members, key, v) ==
    [k \in DOMAIN members \cup {key} |-> IF k = key THEN v ELSE members[k]]

NoMembers == [k \in {} |-> <<>>]

RECURSIVE ScanValue(_, _)
RECURSIVE ScanElements(_, _, _)
RECURSIVE ScanMembers(_, _, _)

\* the elements of an array, the first of them at p
ScanElements(data, p, items) ==
    LET r == ScanValue(data, p)
    IN  IF r.st # "ok" THEN r
        ELSE LET q == SkipSpace(data, r.next)
                 c == ByteAt(data, q)
             IN  IF c = 44
                 THEN ScanElements(data, SkipSpace(data, q + 1),
                                   Append(items, r.v))
                 ELSE IF c = 93
                 THEN JsonOk([t |-> "arr", items |-> Append(items, r.v)],
                             q + 1)
                 ELSE JsonBad

\* the members of an object, the key of the first of them at p
ScanMembers(data, p, members) ==
    IF ByteAt(data, p) # 34 THEN JsonBad
    ELSE LET k == ScanString(data, p)
         IN  IF k.st # "ok" THEN k
             ELSE LET colon == SkipSpace(data, k.next)
                  IN  IF ByteAt(data, colon) # 58 THEN JsonBad
                      ELSE LET r == ScanValue(data, SkipSpace(data, colon + 1))
                           IN  IF r.st # "ok" THEN r
                               ELSE LET q == SkipSpace(data, r.next)
                                        c == ByteAt(data, q)
                                        now == PutMember(members, k.v.text, r.v)
                                    IN  IF c = 44
                                        THEN ScanMembers(data,
                                                 SkipSpace(data, q + 1), now)
                                        ELSE IF c = 125
                                        THEN JsonOk([t |-> "obj",
                                                     members |-> now], q + 1)
                                        ELSE JsonBad

\* the value that starts at p
ScanValue(data, p) ==
    LET c == ByteAt(data, p)
    IN  IF c = 123
        THEN LET q == SkipSpace(data, p + 1)
             IN  IF ByteAt(data, q) = 125
                 THEN JsonOk([t |-> "obj", members |-> NoMembers], q + 1)
                 ELSE ScanMembers(data, q, NoMembers)
        ELSE IF c = 91
        THEN LET q == SkipSpace(data, p + 1)
             IN  IF ByteAt(data, q) = 93
                 THEN JsonOk([t |-> "arr", items |-> <<>>], q + 1)
                 ELSE ScanElements(data, q, <<>>)
        ELSE IF c = 34 THEN ScanString(data, p)
        ELSE IF c = 116 THEN ScanLiteral(data, p, <<116, 114, 117, 101>>)
        ELSE IF c = 102 THEN ScanLiteral(data, p, <<102, 97, 108, 115, 101>>)
        ELSE IF c = 110 THEN ScanLiteral(data, p, <<110, 117, 108, 108>>)
        ELSE IF c = 45 \/ c \in 48..57 THEN ScanNumber(data, p)
        ELSE JsonBad

\* one value, white space around it, and nothing else
Unmarshal(data) ==
    LET r == ScanValue(data, SkipSpace(data, 0))
    IN  IF r.st # "ok" THEN r
        ELSE IF SkipSpace(data, r.next) # Len(data) THEN JsonBad
        ELSE r

\* the indent is a tab
IndentUnit_Tab == <<9>>

\* the indent of MarshalIndent
IndentUnit == <<32, 32>>

RECURSIVE Indentation(_)
Indentation(depth) ==
    IF depth = 0 THEN <<>> ELSE IndentUnit \o Indentation(depth - 1)

NewLine(depth) == <<10>> \o Indentation(depth)

\* a string between quotes; the characters that HTML reads are escaped
RECURSIVE QuoteBody(_)
QuoteBody(text) ==
    IF text = <<>> THEN <<>>
    ELSE LET c == Head(text)
             e == IF c = 60 THEN <<92, 117, 48, 48, 51, 99>>
                  ELSE IF c = 62 THEN <<92, 117, 48, 48, 51, 101>>
                  ELSE IF c = 38 THEN <<92, 117, 48, 48, 50, 54>>
                  ELSE <<c>>
         IN  e \o QuoteBody(Tail(text))

Quoted(text) == <<34>> \o QuoteBody(text) \o <<34>>

\* the order of the keys of a map: byte by byte
RECURSIVE KeyLess(_, _)
KeyLess(a, b) ==
    IF b = <<>> THEN FALSE
    ELSE IF a = <<>> THEN TRUE
    ELSE IF Head(a) # Head(b) THEN Head(a) < Head(b)
    ELSE KeyLess(Tail(a), Tail(b))

RECURSIVE SortedKeys(_)
SortedKeys(keys) ==
    IF keys = {} THEN <<>>
    ELSE LET k == CHOOSE a \in keys : \A b \in keys \ {a} : KeyLess(a, b)
         IN  <<k>> \o SortedKeys(keys \ {k})

RECURSIVE Marshal(_, _)
RECURSIVE MarshalItems(_, _)
RECURSIVE MarshalMembers(_, _, _)

MarshalItems(items, depth) ==
    Marshal(Head(items), depth)
      \o (IF Len(items) = 1 THEN <<>>
          ELSE <<44>> \o NewLine(depth) \o MarshalItems(Tail(items), depth))

MarshalMembers(members, keys, depth) ==
    Quoted(Head(keys)) \o <<58, 32>> \o Marshal(members[Head(keys)], depth)
      \o (IF Len(keys) = 1 THEN <<>>
          ELSE <<44>> \o NewLine(depth)
                 \o MarshalMembers(members, Tail(keys), depth))

\* the text of a value whose lines are indented by depth units
Marshal(v, depth) ==
    IF v.t = "str" THEN Quoted(v.text)
    ELSE IF v.t \in {"lit", "num"} THEN v.text
    ELSE IF v.t = "arr"
    THEN IF v.items = <<>> THEN <<91, 93>>
         ELSE <<91>> \o NewLine(depth + 1) \o MarshalItems(v.items, depth + 1)
                \o NewLine(depth) \o <<93>>
    ELSE IF DOMAIN v.members = {} THEN <<123, 125>>
         ELSE <<123>> \o NewLine(depth + 1)
                \o MarshalMembers(v.members, SortedKeys(DOMAIN v.members),
                                  depth + 1)
                \o NewLine(depth) \o <<125>>

MarshalIndent(v) == Marshal(v, 0)

-----------------------------------------------------------------------------
(* main: the input file is read, the payload extracted, trimmed and        *)
(* decoded, unzipped when it looks zipped, formatted when it is JSON, and  *)
(* written to the output file.  log.Fatalf ends the process with status 1. *)

\* the texts of the input file: the texts made of a few pieces of a
\* command, and commands whose payload is an input of the decoder's tests,
\* a JSON text, a gzip stream or a damaged one
MaxPieces == 4

Pieces == {Marker, Slice(Marker, 0, Len(Marker) - 1), <<Quote>>, <<97>>,
           <<10>>, <<32>>}

RECURSIVE Concat(_)
Concat(ss) == IF ss = <<>> THEN <<>> ELSE Head(ss) \o Concat(Tail(ss))

PieceFiles == {Concat(ps) : ps \in SeqsUpTo(Pieces, MaxPieces)}

\* curl -X POST 'url'
CommandHead == <<99, 117, 114, 108, 32, 45, 88, 32, 80, 79, 83, 84, 32, 39,
               117, 114, 108, 39, 32>>

\*  --compressed
CommandTail == <<32, 45, 45, 99, 111, 109, 112, 114, 101, 115, 115, 101,
               100>>

JsonPayloads == {
    \* {"key":"value"}
    <<123, 34, 107, 101, 121, 34, 58, 34, 118, 97, 108, 117, 101, 34, 125>>,
    \*  {"key":"value"}\n
    <<32, 123, 34, 107, 101, 121, 34, 58, 34, 118, 97, 108, 117, 101, 34,
    125, 92, 110>>,
    \* {"b":[true,null],"a":"x<y"}
    <<123, 34, 98, 34, 58, 91, 116, 114, 117, 101, 44, 110, 117, 108, 108,
    93, 44, 34, 97, 34, 58, 34, 120, 60, 121, 34, 125>>,
    \* [1,\n2]
    <<91, 49, 44, 92, 110, 50, 93>>,
    \* {\"n\":{\x22z\x22:[],\u0022a\u0022:{}},\"n2\":-12}
    <<123, 92, 34, 110, 92, 34, 58, 123, 92, 120, 50, 50, 122, 92, 120, 50,
    50, 58, 91, 93, 44, 92, 117, 48, 48, 50, 50, 97, 92, 117, 48, 48, 50,
    50, 58, 123, 125, 125, 44, 92, 34, 110, 50, 92, 34, 58, 45, 49, 50,
    125>>,
    \* null
    <<110, 117, 108, 108>>,
    \* {"a":1,}
    <<123, 34, 97, 34, 58, 49, 44, 125>>,
    \* {"a":1} x
    <<123, 34, 97, 34, 58, 49, 125, 32, 120>> }

\* the damaged stream of TestDecompressGzipData, a stream cut short, a
\* stream with a byte after its end, headers cut short, other methods
DamagedStreams ==
    { GzipHeader \o <<1, 2>>,
      GzipHeader \o <<171, 86, 74, 84, 178, 50, 172, 5, 0, 175, 172, 27, 86,
                      7, 0, 0>>,
      GzipHeader \o <<3, 0, 0, 0, 0, 0, 0, 0, 0, 0, 0>>,
      GzipHeader,
      GzipMagic,
      GzipMagic \o <<0, 0, 0, 0, 0, 0, 0, 255, 3, 0>>,
      <<31>>, <<31, 65>>, <<139, 31>>, <<65, 31, 139>> }

GzipPayloads ==
    LET streams == {g.stream : g \in GzipStreams} \cup DamagedStreams
    IN  {EscapeXHH(z, FALSE) : z \in streams}
          \cup {<<32>> \o EscapeXHH(z, TRUE) \o <<10>> : z \in streams}

\* white space around the payload, and bytes that only look like it
SpacedPayloads ==
    { <<194, 160, 65, 32, 66, 9, 11, 12, 13>>,
      <<226, 128, 168, 65, 194, 133>>,
      <<160, 65, 133>>,
      <<65, 194>>,
      <<92, 110, 65, 92, 116>> }

Payloads == TestInputs \cup JsonPayloads \cup GzipPayloads \cup SpacedPayloads

CommandFiles ==
    {CommandHead \o Marker \o p \o <<Quote>> \o CommandTail : p \in Payloads}

InputFiles == PieceFiles \cup CommandFiles

\* what the output file holds before the run, when it exists
OldOutput == <<111, 108, 100>>

\* decodeRawData has not been called
DecodeIdle ==
    /\ inputBytes = <<>>
    /\ i = 0
    /\ result = <<>>
    /\ pc = "idle"
    /\ ret = <<>>
    /\ err = "nil"
    /\ errArg = <<>>

MainInit ==
    /\ mainPc = "read"
    /\ inputFile \in InputFiles \cup {NoFile}
    /\ curlCommand = <<>>
    /\ dataRaw = <<>>
    /\ decodedData = <<>>
    /\ finalProcessedData = <<>>
    /\ prettyJSON = <<>>
    /\ outputFile \in {NoFile, OldOutput}
    /\ exitCode = -1
    /\ DecodeIdle
    /\ TestNone

\* the process ends with status 0
Fatalf_StatusZero ==
    /\ mainPc' = "exit"
    /\ exitCode' = 0

\* log.Fatalf
Fatalf ==
    /\ mainPc' = "exit"
    /\ exitCode' = 1

\* os.ReadFile
MainReadFile ==
    /\ mainPc = "read"
    /\ IF inputFile = NoFile
       THEN Fatalf /\ UNCHANGED curlCommand
       ELSE /\ curlCommand' = inputFile
            /\ mainPc' = "extract"
            /\ UNCHANGED exitCode
    /\ UNCHANGED <<inputFile, dataRaw, decodedData, finalProcessedData,
                   prettyJSON, outputFile, decodeVars, testVars>>

MainExtract ==
    /\ mainPc = "extract"
    /\ LET r == extractDataRaw(curlCommand)
       IN  IF r.err # "nil"
           THEN Fatalf /\ UNCHANGED dataRaw
           ELSE /\ dataRaw' = r.value
                /\ mainPc' = "trim"
                /\ UNCHANGED exitCode
    /\ UNCHANGED <<inputFile, curlCommand, decodedData, finalProcessedData,
                   prettyJSON, outputFile, decodeVars, testVars>>

MainTrim ==
    /\ mainPc = "trim"
    /\ dataRaw' = TrimSpace(dataRaw)
    /\ mainPc' = "decode"
    /\ UNCHANGED <<inputFile, curlCommand, decodedData, finalProcessedData,
                   prettyJSON, outputFile, exitCode, decodeVars, testVars>>

\* decodeRawData is called with s
Call(s) ==
    /\ inputBytes' = s
    /\ i' = 0
    /\ result' = <<>>
    /\ pc' = "loop"
    /\ ret' = <<>>
    /\ err' = "nil"
    /\ errArg' = <<>>

MainDecode ==
    /\ mainPc = "decode"
    /\ Call(dataRaw)
    /\ mainPc' = "decoding"
    /\ UNCHANGED <<inputFile, curlCommand, dataRaw, decodedData,
                   finalProcessedData, prettyJSON, outputFile, exitCode,
                   testVars>>

\* decodeRawData has returned
MainDecoded ==
    /\ mainPc = "decoding"
    /\ pc \in {"done", "error"}
    /\ IF pc = "error"
       THEN Fatalf /\ UNCHANGED decodedData
       ELSE /\ decodedData' = ret
            /\ mainPc' = "magic"
            /\ UNCHANGED exitCode
    /\ UNCHANGED <<inputFile, curlCommand, dataRaw, finalProcessedData,
                   prettyJSON, outputFile, decodeVars, testVars>>

\* only the first byte is looked at
HasGzipMagic_FirstByteOnly(data) == Len(data) >= 1 /\ data[1] = 31

\* the decoded data begins with the two bytes of a gzip stream
HasGzipMagic(data) == Len(data) >= 2 /\ data[1] = 31 /\ data[2] = 139

MainCheckMagic ==
    /\ mainPc = "magic"
    /\ IF HasGzipMagic(decodedData)
       THEN /\ mainPc' = "gunzip"
            /\ UNCHANGED finalProcessedData
       ELSE /\ finalProcessedData' = decodedData
            /\ mainPc' = "json"
    /\ UNCHANGED <<inputFile, curlCommand, dataRaw, decodedData, prettyJSON,
                   outputFile, exitCode, decodeVars, testVars>>

MainGunzip ==
    /\ mainPc = "gunzip"
    /\ LET r == decompressGzipData(decodedData)
       IN  finalProcessedData' = IF r.err # "nil" THEN decodedData
                                 ELSE r.value
    /\ mainPc' = "json"
    /\ UNCHANGED <<inputFile, curlCommand, dataRaw, decodedData, prettyJSON,
                   outputFile, exitCode, decodeVars, testVars>>

\* json.Unmarshal and, when it succeeds, json.MarshalIndent
MainFormat ==
    /\ mainPc = "json"
    /\ LET r == Unmarshal(finalProcessedData)
       IN  \/ /\ r.st = "bad"
              /\ mainPc' = "writeRaw"
              /\ UNCHANGED prettyJSON
           \/ /\ r.st = "ok"
              /\ prettyJSON' = MarshalIndent(r.v)
              /\ mainPc' = "writePretty"
    /\ UNCHANGED <<inputFile, curlCommand, dataRaw, decodedData,
                   finalProcessedData, outputFile, exitCode, decodeVars,
                   testVars>>

\* os.WriteFile, and the end of main: the file is opened and cut to the
\* empty file, the data are written, and each of the two can fail
WriteFile(data) ==
    /\ \/ /\ outputFile' = data
          /\ exitCode' = 0
       \/ /\ \/ outputFile' = outputFile
             \/ \E k \in 0..(Len(data) - 1) : outputFile' = Slice(data, 0, k)
          /\ exitCode' = 1
    /\ mainPc' = "exit"
    /\ UNCHANGED <<inputFile, curlCommand, dataRaw, decodedData,
                   finalProcessedData, prettyJSON, decodeVars, testVars>>

MainWriteRaw ==
    /\ mainPc = "writeRaw"
    /\ WriteFile(finalProcessedData)

MainWritePretty ==
    /\ mainPc = "writePretty"
    /\ WriteFile(prettyJSON)

MainNext ==
    \/ MainReadFile
    \/ MainExtract
    \/ MainTrim
    \/ MainDecode
    \/ MainDecoded
    \/ MainCheckMagic
    \/ MainGunzip
    \/ MainFormat
    \/ MainWriteRaw
    \/ MainWritePretty
    \/ Next

MainSpec == MainInit /\ [][MainNext]_vars

\* every text main hands to json.Unmarshal is one the scanner decides
ScannerSuffices ==
    mainPc = "json" => Unmarshal(finalProcessedData).st # "beyond"

-----------------------------------------------------------------------------
(* reprBytes: the bytes the way Python writes a bytes literal.             *)

\* the byte is written as it is
Printable_WithBackslash(B) == B >= 32 /\ B < 127 /\ B # 39

\* the byte is written as it is: printable ASCII, no quote, no backslash
Printable(B) == B >= 32 /\ B < 127 /\ B # 39 /\ B # 92

\* the verb %02X
Sprintf02x_Upper(B) ==
    <<HexDigitChar(B \div 16, TRUE), HexDigitChar(B % 16, TRUE)>>

\* the verb %02x: two hex digits, the letters small
Sprintf02x(B) ==
    <<HexDigitChar(B \div 16, FALSE), HexDigitChar(B % 16, FALSE)>>

\* what the loop writes for one byte
ReprByte(B) ==
    IF Printable(B) THEN <<B>>
    ELSE IF B = 10 THEN <<92, 110>>
    ELSE IF B = 13 THEN <<92, 114>>
    ELSE IF B = 9 THEN <<92, 116>>
    ELSE IF B = 39 THEN <<92, 39>>
    ELSE IF B = 92 THEN <<92, 92>>
    ELSE <<92, 120>> \o Sprintf02x(B)

reprBytes(b) ==
    <<98, 39>> \o Concat([k \in 1..Len(b) |-> ReprByte(b[k])]) \o <<39>>

-----------------------------------------------------------------------------
(* The test.  It either writes argA with reprBytes and decodes what stands *)
(* between the quotes, or it decodes argA, argB and the two in a row.  A   *)
(* test whose argA or argB does not decode ends there.                     *)

MaxReprLen == 2    \* length of the byte strings over ReprAlphabet
MaxLeftLen == 3    \* length of the left arguments over ComposeAlphabet
MaxRightLen == 1   \* length of the right arguments over ComposeAlphabet

\* NUL TAB LF CR " ' 0 A \ x ~ DEL and the bytes 128 and 255
ReprAlphabet == {0, 9, 10, 13, 34, 39, 48, 65, 92, 120, 126, 127, 128, 255}

\* the inputs of TestReprBytes
ReprTests == {
    <<>>,
    <<104, 101, 108, 108, 111>>,
    <<105, 116, 39, 115>>,
    <<97, 92, 98>>,
    <<108, 105, 110, 101, 10, 98, 114, 101, 97, 107>>,
    <<108, 105, 110, 101, 13, 98, 114, 101, 97, 107>>,
    <<108, 105, 110, 101, 9, 98, 114, 101, 97, 107>>,
    <<0, 31>>,
    <<97, 10, 98, 39, 92, 99, 1>> }

ReprArgs ==
    {<<B>> : B \in Byte} \cup SeqsUpTo(ReprAlphabet, MaxReprLen) \cup ReprTests

\* \ 1 8 A and the two bytes of a-umlaut
ComposeAlphabet == {92, 49, 56, 65, 195, 164}

LeftArgs == TestInputs \cup SeqsUpTo(ComposeAlphabet, MaxLeftLen)

\* \x41 \u0041 \101 \n \\ \z a-umlaut and 1, \18
RightSamples == {
    <<92, 120, 52, 49>>,
    <<92, 117, 48, 48, 52, 49>>,
    <<92, 49, 48, 49>>,
    <<92, 110>>,
    <<92, 92>>,
    <<92, 122>>,
    <<195, 164, 49>>,
    <<92, 49, 56>> }

RightArgs == SeqsUpTo(ComposeAlphabet, MaxRightLen) \cup RightSamples

TestInit ==
    /\ \/ /\ testPc = "repr"
          /\ argA \in ReprArgs
          /\ argB = <<>>
       \/ /\ testPc = "decodeA"
          /\ argA \in LeftArgs
          /\ argB \in RightArgs
    /\ outA = <<>>
    /\ outB = <<>>
    /\ rendered = <<>>
    /\ DecodeIdle
    /\ MainNone

TestRepr ==
    /\ testPc = "repr"
    /\ rendered' = reprBytes(argA)
    /\ testPc' = "decodeRendered"
    /\ UNCHANGED <<argA, argB, outA, outB, decodeVars, mainVars>>

\* the text between b' and the last quote
Unquoted(text) == Slice(text, 2, Len(text) - 1)

\* the argument of the call the test is at
TestArg ==
    IF testPc = "decodeRendered" THEN Unquoted(rendered)
    ELSE IF testPc = "decodeA" THEN argA
    ELSE IF testPc = "decodeB" THEN argB
    ELSE argA \o argB

TestCall ==
    /\ testPc \in {"decodeRendered", "decodeA", "decodeB", "decodeAB"}
    /\ pc = "idle"
    /\ Call(TestArg)
    /\ UNCHANGED <<testVars, mainVars>>

\* decodeRawData has returned to the test
TestReturn ==
    /\ testPc \in {"decodeRendered", "decodeA", "decodeB", "decodeAB"}
    /\ pc \in {"done", "error"}
    /\ IF testPc = "decodeRendered"
       THEN /\ testPc' = "inverted"
            /\ UNCHANGED <<outA, outB, decodeVars>>
       ELSE IF testPc = "decodeAB"
       THEN /\ testPc' = "composed"
            /\ UNCHANGED <<outA, outB, decodeVars>>
       ELSE IF pc = "error"
       THEN /\ testPc' = "skipped"
            /\ UNCHANGED <<outA, outB, decodeVars>>
       ELSE /\ testPc' = (IF testPc = "decodeA" THEN "decodeB" ELSE "decodeAB")
            /\ outA' = (IF testPc = "decodeA" THEN ret ELSE outA)
            /\ outB' = (IF testPc = "decodeB" THEN ret ELSE outB)
            /\ pc' = "idle"
            /\ UNCHANGED <<inputBytes, i, result, ret, err, errArg>>
    /\ UNCHANGED <<argA, argB, rendered, mainVars>>

TestNext ==
    \/ TestRepr
    \/ TestCall
    \/ TestReturn
    \/ Next

TestSpec == TestInit /\ [][TestNext]_vars

-----------------------------------------------------------------------------
(* One call of decodeRawData that is not held up: the loop goes on as long *)
(* as an iteration or the return is possible.                              *)

MaxCursorLen == 4  \* length of the strings over CursorAlphabet

\* \ x u U 1 A
CursorAlphabet == {92, 120, 117, 85, 49, 65}

\* the inputs of the tests, every escape code and every byte, and the
\* strings over CursorAlphabet, whose escapes are cut short at every length
CursorInputs ==
    TestInputs \cup EscapePairs \cup SingleBytes
      \cup SeqsUpTo(CursorAlphabet, MaxCursorLen)

CursorInit ==
    /\ \E s \in CursorInputs : Entry(s)
    /\ MainNone
    /\ TestNone

CursorSpec == CursorInit /\ [][Next]_vars /\ WF_vars(Next)

-----------------------------------------------------------------------------
(* Vocabulary of the properties: what the input holds at the cursor,       *)
(* stated on the bytes themselves.                                         *)

IsAsciiHexDigit(c) == c \in (48..57) \cup (65..70) \cup (97..102)

\* the value of an ASCII hex digit
HexDigitValue(c) ==
    CHOOSE n \in 0..15 : c \in {HexDigitChar(n, TRUE), HexDigitChar(n, FALSE)}

AllHexDigits(s) == \A k \in 1..Len(s) : IsAsciiHexDigit(s[k])

\* the loop is about to read a backslash followed by the byte c
Reaches(c) ==
    /\ pc = "loop"
    /\ i + 1 < Len(inputBytes)
    /\ At(i) = 92
    /\ At(i + 1) = c

\* the number of bytes after the escape code
Remaining == Len(inputBytes) - (i + 2)

\* the n bytes after the escape code
Following(n) == Slice(inputBytes, i + 2, i + 2 + n)

\* the escape code of the n-digit unicode escape: u for 4, U for 8
UnicodeCode(n) == IF n = 4 THEN 117 ELSE 85

\* a string of hex digits has a value of at most 255: all but its last two
\* digits are 0
HexAtMost255(s) == \A k \in 1..(Len(s) - 2) : s[k] = 48

\* the value of the last two digits
HexLowByte(s) ==
    HexDigitValue(s[Len(s) - 1]) * 16 + HexDigitValue(s[Len(s)])

Failed(msg) == pc' = "error" /\ err' = msg /\ ret' = <<>>

Appended(bytes, width) ==
    /\ pc' = "loop"
    /\ result' = result \o bytes
    /\ i' = i + width

-----------------------------------------------------------------------------
\* C1: at \u (\U) with at least 4 (8) bytes after it the escape is accepted
\* only if each of these bytes is an ASCII hex digit, any other byte (a sign
\* included) gives the invalid-unicode-escape error, and fewer than 4 (8)
\* bytes give the incomplete-unicode-escape error.
C1_UnicodeDigitsOnlyHex ==
    [][\A n \in {4, 8} :
          Reaches(UnicodeCode(n)) =>
             /\ Remaining < n => Failed("incomplete unicode escape")
             /\ (Remaining >= n /\ pc' = "loop") => AllHexDigits(Following(n))
             /\ (Remaining >= n /\ ~AllHexDigits(Following(n)))
                   => Failed("invalid unicode escape")
      ]_vars

\* C2: \u with 4 hex digits and \U with 8 hex digits append the byte of the
\* value when it is at most 255 and fail with the outside-Latin-1 error
\* when it is larger, up to FFFFFFFF.
C2_UnicodeValueOrOutOfRange ==
    [][\A n \in {4, 8} :
          (Reaches(UnicodeCode(n)) /\ Remaining >= n
              /\ AllHexDigits(Following(n))) =>
             IF HexAtMost255(Following(n))
             THEN Appended(<<HexLowByte(Following(n))>>, 2 + n)
             ELSE Failed("unicode escape outside Latin-1 range")
      ]_vars

\* C3: the call returns bytes and no error, or an error and no bytes: an
\* error return carries nil even after bytes were decoded, and nothing is
\* returned before the loop ends.
C3_ErrorXorBytes ==
    /\ pc = "error" => (err # "nil" /\ ret = <<>>)
    /\ pc = "done" => (err = "nil" /\ ret = result)
    /\ pc = "loop" => (err = "nil" /\ ret = <<>>)
    /\ ~(err # "nil" /\ ret # <<>>)

\* an error was returned after bytes had been decoded
C3_Witness == pc = "error" /\ result # <<>> /\ ret = <<>>

\* the greedy octal run at the cursor: 1 to 3 digits 0-7 after the backslash
IsOctal(c) == c \in 48..55

ReachesOctal ==
    /\ pc = "loop"
    /\ i + 1 < Len(inputBytes)
    /\ At(i) = 92
    /\ IsOctal(At(i + 1))

RunLength ==
    CHOOSE n \in 1..3 :
        /\ \A k \in 1..n : i + k < Len(inputBytes) /\ IsOctal(At(i + k))
        /\ \/ n = 3
           \/ i + n + 1 >= Len(inputBytes)
           \/ ~IsOctal(At(i + n + 1))

\* the byte right after the run is a decimal digit
DigitAfterRun ==
    /\ i + 1 + RunLength < Len(inputBytes)
    /\ At(i + 1 + RunLength) \in 48..57

\* the base-8 value of the run
RunValue ==
    LET d(k) == At(i + k) - 48
    IN  IF RunLength = 1 THEN d(1)
        ELSE IF RunLength = 2 THEN 8 * d(1) + d(2)
        ELSE 64 * d(1) + 8 * d(2) + d(3)

\* C4: an octal run followed at once by a decimal digit fails with the
\* invalid-octal-escape error, whatever the length and the value of the run.
C4_OctalThenDigitFails ==
    [][(ReachesOctal /\ DigitAfterRun) => Failed("invalid octal escape")]_vars

\* a 3-digit run above 255 followed by a digit gave the invalid-octal error
C4_Witness ==
    /\ pc = "error"
    /\ err = "invalid octal escape"
    /\ Len(errArg) = 4
    /\ errArg[1] \in 52..55

\* C5: an octal run not followed by a decimal digit appends the byte of its
\* base-8 value and leaves the cursor after the run when the value is at
\* most 255, else fails with the too-large error; it is too large exactly
\* when the run has 3 digits and starts with 4-7.
C5_OctalValueOrOverflow ==
    [][(ReachesOctal /\ ~DigitAfterRun) =>
          /\ IF RunValue <= 255
             THEN Appended(<<RunValue>>, 1 + RunLength)
             ELSE Failed("octal escape too large for a byte")
          /\ (pc' = "error") <=> (RunLength = 3 /\ At(i + 1) \in 52..55)
      ]_vars

\* \377 was decoded to 0xFF and the byte after it is being read
C5_Witness ==
    /\ pc = "loop"
    /\ i >= 4
    /\ Slice(inputBytes, i - 4, i) = <<92, 51, 55, 55>>
    /\ result = <<255>>

\* C6: \x followed by two hex digits appends their byte and moves past them;
\* with fewer than two bytes left it fails as incomplete whatever the byte
\* left is; with two bytes of which one is no hex digit it fails as invalid.
C6_HexEscape ==
    [][Reaches(120) =>
          IF Remaining < 2 THEN Failed("incomplete hex escape")
          ELSE IF AllHexDigits(Following(2))
          THEN Appended(<<HexLowByte(Following(2))>>, 4)
          ELSE Failed("invalid hex escape")
      ]_vars

\* \x with a single byte left that is no hex digit failed as incomplete
C6_Witness ==
    /\ pc = "error"
    /\ err = "incomplete hex escape"
    /\ Len(errArg) = 1
    /\ ~IsAsciiHexDigit(errArg[1])

\* the length of the well-formed UTF-8 sequence at the cursor (Unicode
\* table 3-7), 0 when the bytes there are none
WellFormedLength ==
    LET n == Len(inputBytes) - i
        b(k) == At(i + k)
        Trail(k) == b(k) \in 128..191
    IN  IF b(0) <= 127 THEN 1
        ELSE IF b(0) \in 194..223 /\ n >= 2 /\ Trail(1) THEN 2
        ELSE IF n >= 3 /\ Trail(2) /\
                \/ b(0) = 224 /\ b(1) \in 160..191
                \/ b(0) \in (225..236) \cup (238..239) /\ Trail(1)
                \/ b(0) = 237 /\ b(1) \in 128..159
        THEN 3
        ELSE IF n >= 4 /\ Trail(2) /\ Trail(3) /\
                \/ b(0) = 240 /\ b(1) \in 144..191
                \/ b(0) \in 241..243 /\ Trail(1)
                \/ b(0) = 244 /\ b(1) \in 128..143
        THEN 4
        ELSE 0

\* the codepoint of the character at the cursor when it is at most 255
\* (1 byte, or 2 bytes led by 0xC2 or 0xC3), else -1
Latin1Codepoint ==
    IF WellFormedLength = 1 THEN At(i)
    ELSE IF WellFormedLength = 2 /\ At(i) \in {194, 195}
    THEN (At(i) - 192) * 64 + (At(i + 1) - 128)
    ELSE -1

\* C7: a literal position is decoded as one UTF-8 character: bytes that are
\* no valid encoding fail with the invalid-encoding error and that index, a
\* codepoint up to 255 appends its byte and advances by the length of the
\* encoding (1 or 2), a larger codepoint fails as out of range.
C7_LiteralCharacter ==
    [][(pc = "loop" /\ i < Len(inputBytes) /\ At(i) # 92) =>
          IF WellFormedLength = 0
          THEN Failed("invalid UTF-8 sequence") /\ errArg' = <<i>>
          ELSE IF Latin1Codepoint >= 0
          THEN /\ Appended(<<Latin1Codepoint>>, WellFormedLength)
               /\ WellFormedLength \in {1, 2}
          ELSE Failed("literal character outside Latin-1 range")
      ]_vars

\* a 2-byte character was decoded to one byte above 127
C7_Witness ==
    /\ pc = "loop"
    /\ i = 2
    /\ inputBytes[1] = 195
    /\ result = <<inputBytes[2] + 64>>

\* the escape codes that have a meaning: n r t b f v a \ ' " x u U 0-7
MeaningfulCodes ==
    {110, 114, 116, 98, 102, 118, 97, 92, 39, 34, 120, 117, 85} \cup (48..55)

\* C8: a backslash followed by any other byte is no error: the backslash
\* and that byte are appended unchanged and the cursor moves past both.
C8_UnknownEscapeKept ==
    [][\A c \in Byte \ MeaningfulCodes :
          Reaches(c) => Appended(<<92, c>>, 2)
      ]_vars

\* a backslash and a byte above 127 came out as they were
C8_Witness ==
    /\ pc = "done"
    /\ Len(inputBytes) = 2
    /\ inputBytes[1] = 92
    /\ inputBytes[2] >= 128
    /\ ret = inputBytes

\* the \xHH form of each byte string of RoundTripBytes, with that string
RoundTripPairs ==
    {<<EscapeXHH(b, u), b>> : b \in RoundTripBytes, u \in BOOLEAN}

\* escaped text -> the byte strings it is the \xHH form of
RoundTripSource ==
    [x \in {p[1] : p \in RoundTripPairs} |->
        {p[2] : p \in {q \in RoundTripPairs : q[1] = x}}]

\* C9: the \xHH form of a byte string decodes, without error, to that
\* byte string.
C9_RoundTrip ==
    (pc # "loop" /\ inputBytes \in DOMAIN RoundTripSource) =>
        \A b \in RoundTripSource[inputBytes] : pc = "done" /\ ret = b

\* an escaped backslash and an escaped 0xFF came back
C9_Witness ==
    /\ pc = "done"
    /\ inputBytes \in DOMAIN RoundTripSource
    /\ ret = <<92, 255>>

\* the ten single-character escapes: <<escape code, byte>>
SingleCharTable ==
    {<<110, 10>>, <<114, 13>>, <<116, 9>>, <<98, 8>>, <<102, 12>>,
     <<118, 11>>, <<97, 7>>, <<92, 92>>, <<39, 39>>, <<34, 34>>}

\* C10: each single-character escape appends its one fixed byte and moves
\* past the two input bytes; the empty input gives the empty byte sequence.
C10_SingleCharEscapes ==
    [][/\ \A e \in SingleCharTable : Reaches(e[1]) => Appended(<<e[2]>>, 2)
       /\ (pc = "loop" /\ inputBytes = <<>>) => (pc' = "done" /\ ret' = <<>>)
      ]_vars

\* \v alone was decoded to 0x0B
C10_Witness == pc = "done" /\ inputBytes = <<92, 118>> /\ ret = <<11>>

\* C11: a backslash that is the last byte of the input, read as the start
\* of an escape, fails with the trailing-backslash error whatever was
\* decoded before it, and nothing else gives that error: an escaped
\* backslash pair at the end of the input decodes to one backslash.
C11_TrailingBackslash ==
    [][/\ (pc = "loop" /\ i + 1 = Len(inputBytes) /\ At(i) = 92)
             => Failed("trailing backslash")
       /\ (pc = "loop" /\ err' = "trailing backslash")
             => (i + 1 = Len(inputBytes) /\ At(i) = 92)
       /\ (pc = "loop" /\ i + 2 = Len(inputBytes) /\ At(i) = 92
              /\ At(i + 1) = 92)
             => Appended(<<92>>, 2)
      ]_vars

\* a final backslash failed after bytes had been decoded
C11_Witness ==
    /\ pc = "error"
    /\ err = "trailing backslash"
    /\ result # <<>>
    /\ inputBytes[Len(inputBytes)] = 92

-----------------------------------------------------------------------------
\* the offsets of the cURL command at which the marker stands
MarkerStarts == {k \in 0..Len(curlCommand) : LiteralAt(curlCommand, Marker, k)}

\* the offsets of its single quotes
QuoteOffsets == {q \in 0..(Len(curlCommand) - 1) : curlCommand[q + 1] = Quote}

\* some occurrence of the marker has a single quote after it
MarkerThenQuote ==
    \E k \in MarkerStarts : \E q \in QuoteOffsets : q >= k + Len(Marker)

FirstMarker == CHOOSE k \in MarkerStarts : \A j \in MarkerStarts : k <= j

LastQuote == CHOOSE q \in QuoteOffsets : \A j \in QuoteOffsets : j <= q

\* C12: when some occurrence of the marker has a single quote after it,
\* extractDataRaw returns the text from just after the first occurrence of
\* the marker to just before the last single quote of the whole command,
\* newlines and quotes in between included; otherwise, and so whenever the
\* marker is absent, it fails with the extraction error, which ends the run.
C12_ExtractGreedy ==
    [][mainPc = "extract" =>
         /\ extractDataRaw(curlCommand).err
              = (IF MarkerThenQuote THEN "nil"
                 ELSE "failed to extract data-raw part")
         /\ MarkerThenQuote =>
              /\ mainPc' = "trim"
              /\ dataRaw' = Slice(curlCommand, FirstMarker + Len(Marker),
                                  LastQuote)
         /\ ~MarkerThenQuote => mainPc' = "exit" /\ exitCode' = 1
         /\ MarkerStarts = {} => mainPc' = "exit" /\ exitCode' = 1
      ]_vars

\* a payload with a quote and a newline in it was extracted from a command
\* with two markers
C12_Witness ==
    /\ mainPc = "trim"
    /\ Cardinality(MarkerStarts) = 2
    /\ \E k \in 1..Len(dataRaw) : dataRaw[k] = Quote
    /\ \E k \in 1..Len(dataRaw) : dataRaw[k] = 10
    /\ dataRaw = Slice(curlCommand, FirstMarker + Len(Marker), LastQuote)

-----------------------------------------------------------------------------
\* the decoded bytes are at least two and begin with 0x1F 0x8B
GzipPrefixed ==
    /\ Len(decodedData) >= 2
    /\ Slice(decodedData, 0, 2) = <<31, 139>>

-----------------------------------------------------------------------------
\* the JSON texts that reach the formatter, each with its value written
\* again: one member or element a line, two spaces a level, a space after
\* the colon, the keys in order, the less-than sign escaped
IndentedTexts ==
    {
      [text |-> <<123, 34, 107, 101, 121, 34, 58, 34, 118, 97, 108, 117,
                101, 34, 125>>,
       indented |-> <<123, 10, 32, 32, 34, 107, 101, 121, 34, 58, 32, 34,
                    118, 97, 108, 117, 101, 34, 10, 125>>],
      [text |-> <<123, 34, 107, 101, 121, 34, 58, 34, 118, 97, 108, 117,
                101, 34, 125, 10>>,
       indented |-> <<123, 10, 32, 32, 34, 107, 101, 121, 34, 58, 32, 34,
                    118, 97, 108, 117, 101, 34, 10, 125>>],
      [text |-> <<123, 34, 98, 34, 58, 91, 116, 114, 117, 101, 44, 110, 117,
                108, 108, 93, 44, 34, 97, 34, 58, 34, 120, 60, 121, 34,
                125>>,
       indented |-> <<123, 10, 32, 32, 34, 97, 34, 58, 32, 34, 120, 92, 117,
                    48, 48, 51, 99, 121, 34, 44, 10, 32, 32, 34, 98, 34, 58,
                    32, 91, 10, 32, 32, 32, 32, 116, 114, 117, 101, 44, 10,
                    32, 32, 32, 32, 110, 117, 108, 108, 10, 32, 32, 93, 10,
                    125>>],
      [text |-> <<91, 49, 44, 10, 50, 93>>,
       indented |-> <<91, 10, 32, 32, 49, 44, 10, 32, 32, 50, 10, 93>>],
      [text |-> <<123, 34, 110, 34, 58, 123, 34, 122, 34, 58, 91, 93, 44,
                34, 97, 34, 58, 123, 125, 125, 44, 34, 110, 50, 34, 58, 45,
                49, 50, 125>>,
       indented |-> <<123, 10, 32, 32, 34, 110, 34, 58, 32, 123, 10, 32, 32,
                    32, 32, 34, 97, 34, 58, 32, 123, 125, 44, 10, 32, 32,
                    32, 32, 34, 122, 34, 58, 32, 91, 93, 10, 32, 32, 125,
                    44, 10, 32, 32, 34, 110, 50, 34, 58, 32, 45, 49, 50, 10,
                    125>>],
      [text |-> <<110, 117, 108, 108>>,
       indented |-> <<110, 117, 108, 108>>],
      [text |-> <<123, 34, 97, 34, 58, 49, 125>>,
       indented |-> <<123, 10, 32, 32, 34, 97, 34, 58, 32, 49, 10, 125>>] }

IsJsonText == \E d \in IndentedTexts : d.text = finalProcessedData

\* what the output file is to hold
ExpectedOutput ==
    IF IsJsonText
    THEN (CHOOSE d \in IndentedTexts : d.text = finalProcessedData).indented
    ELSE finalProcessedData

\* C14: the bytes main writes to the output file are the value written again
\* with an indent of two spaces when the bytes that come out of the gunzip
\* step parse as JSON, and are those very bytes when they do not.  A text
\* that is not JSON does not end the run: the raw bytes are written, and the
\* run whose write worked ends with status 0.
C14_IndentedOrRaw ==
    [][/\ mainPc = "json" =>
            /\ exitCode' = -1
            /\ mainPc' = (IF IsJsonText THEN "writePretty" ELSE "writeRaw")
       /\ exitCode' = 0 =>
            /\ mainPc \in {"writeRaw", "writePretty"}
            /\ mainPc' = "exit"
            /\ outputFile' = ExpectedOutput
            /\ finalProcessedData' = finalProcessedData
      ]_vars

\* a JSON text with a nested array and unsorted keys was written indented
\* over an older output file
C14_Witness ==
    /\ mainPc = "exit"
    /\ exitCode = 0
    /\ IsJsonText
    /\ Len(outputFile) > Len(finalProcessedData) + 10
    /\ outputFile = ExpectedOutput
    /\ inputFile # NoFile

\* bytes that are no JSON text came out of the gunzip step and were written
\* as they are, and the run ended with status 0
C14_RawWitness ==
    /\ mainPc = "exit"
    /\ exitCode = 0
    /\ ~IsJsonText
    /\ finalProcessedData # decodedData
    /\ outputFile = finalProcessedData

-----------------------------------------------------------------------------
\* the steps main may take from one statement to the next
StageOrder ==
    { <<"read", "extract">>, <<"extract", "trim">>, <<"trim", "decode">>,
      <<"decode", "decoding">>, <<"decoding", "decoding">>,
      <<"decoding", "magic">>, <<"magic", "gunzip">>, <<"magic", "json">>,
      <<"gunzip", "json">>, <<"json", "writeRaw">>, <<"json", "writePretty">>,
      <<"writeRaw", "exit">>, <<"writePretty", "exit">> }

\* the stage fails at which main is
StageFails ==
    \/ mainPc = "read" /\ inputFile = NoFile
    \/ mainPc = "extract" /\ ~MarkerThenQuote
    \/ mainPc = "decoding" /\ pc = "error"

\* C15: a run of main goes through read, extract, trim, decode, the gunzip
\* that may be left out, format and write, in this order.  When reading,
\* extracting or decoding fails, the next step ends the run with a status
\* that is not 0 and leaves the output file as it was.  The output file is
\* written by one step only, the last one of the run, and decodeRawData had
\* returned its bytes without an error before.
C15_StagesInOrder ==
    [][/\ mainPc # "exit"
       /\ IF StageFails
          THEN mainPc' = "exit" /\ exitCode' # 0 /\ exitCode' # -1
          ELSE <<mainPc, mainPc'>> \in StageOrder
       /\ mainPc \notin {"writeRaw", "writePretty"} =>
            outputFile' = outputFile
       /\ mainPc \in {"magic", "gunzip", "json", "writeRaw", "writePretty"} =>
            pc = "done" /\ err = "nil" /\ decodedData = ret
       /\ (mainPc' = "exit") = (exitCode' # -1)
      ]_vars

\* decoding failed after some bytes were decoded: the run ended with
\* status 1 and the older output file is as it was
C15_Witness ==
    /\ mainPc = "exit"
    /\ exitCode = 1
    /\ pc = "error"
    /\ result # <<>>
    /\ outputFile = OldOutput

-----------------------------------------------------------------------------
\* the sixteen hex digits, the letters small
LowerHexDigits ==
    <<48, 49, 50, 51, 52, 53, 54, 55, 56, 57, 97, 98, 99, 100, 101, 102>>

\* the rendering of one byte
Rendering(B) ==
    IF B = 39 THEN <<92, 39>>
    ELSE IF B = 92 THEN <<92, 92>>
    ELSE IF B \in 32..126 THEN <<B>>
    ELSE IF B = 10 THEN <<92, 110>>
    ELSE IF B = 13 THEN <<92, 114>>
    ELSE IF B = 9 THEN <<92, 116>>
    ELSE <<92, 120, LowerHexDigits[(B \div 16) + 1],
           LowerHexDigits[(B % 16) + 1]>>

RECURSIVE Renderings(_)
Renderings(b) ==
    IF b = <<>> THEN <<>> ELSE Rendering(Head(b)) \o Renderings(Tail(b))

\* C16: reprBytes has no error to return, and what it returns for a byte
\* sequence is b' , the renderings of its bytes in order, and ' : a byte
\* from 32 to 126 that is no single quote and no backslash is itself, the
\* single quote and the backslash have a backslash before them, 0x0A, 0x0D
\* and 0x09 are \n, \r and \t, and every other byte is \x and two hex digits
\* with small letters.
C16_ReprBytes ==
    /\ testPc = "repr" => rendered = <<>>
    /\ testPc \in {"decodeRendered", "inverted"} =>
         rendered = <<98, 39>> \o Renderings(argA) \o <<39>>

\* a byte rendered in hex with a letter, and a quote, were rendered
C16_Witness ==
    /\ testPc = "decodeRendered"
    /\ argA = <<255, 39>>
    /\ rendered = <<98, 39, 92, 120, 102, 102, 92, 39, 39>>

-----------------------------------------------------------------------------
\* C17: in every state of the loop of decodeRawData the cursor is at least 0
\* and at most the length of the input; no step makes it smaller, and every
\* iteration after which the loop goes on makes it larger by 1 or more; so
\* the call ends, with its bytes or with an error.
C17_CursorProgress ==
    /\ [](0 <= i /\ i <= Len(inputBytes))
    /\ [][i' >= i /\ (pc' = "loop" => i' >= i + 1)]_vars
    /\ <>(pc \in {"done", "error"})

\* an input whose escapes are shorter in bytes decoded than in bytes read
\* was decoded to its end
C17_Witness ==
    /\ pc = "done"
    /\ i = Len(inputBytes)
    /\ Len(result) >= 2
    /\ Len(result) < Len(inputBytes)

-----------------------------------------------------------------------------
\* C18: when decodeRawData succeeds on a and on b, and b does not begin
\* with one of the digits 0 to 9, it succeeds on a followed by b and
\* returns what it returned for a followed by what it returned for b.
C18_Compositional ==
    (testPc = "composed" /\ (argB = <<>> \/ argB[1] \notin 48..57)) =>
        /\ pc = "done"
        /\ err = "nil"
        /\ ret = outA \o outB

\* a ends in an octal escape of one digit, b begins with an escape
C18_Witness ==
    /\ testPc = "composed"
    /\ Len(argA) >= 2
    /\ argA[Len(argA) - 1] = 92
    /\ argA[Len(argA)] = 49
    /\ argB = <<92, 120, 52, 49>>
    /\ ret = outA \o <<65>>

\* C19: for every byte sequence b, what reprBytes(b) has between its b' and
\* its last quote is decoded by decodeRawData without an error to b.
C19_ReprInverted ==
    testPc = "inverted" =>
        /\ pc = "done"
        /\ err = "nil"
        /\ ret = argA

\* a backslash and a byte above 127 came back from their renderings
C19_Witness ==
    /\ testPc = "inverted"
    /\ argA = <<92, 255>>
    /\ inputBytes = <<92, 92, 92, 120, 102, 102>>
    /\ ret = argA

====
